---- MODULE Spec2Model ----
(***************************************************************************)
(* Model of the Enigma emulator engine (src/emulator.py): the alphabet     *)
(* helpers, Rotor, Reflector, Plugboard and Enigma.                        *)
(*                                                                         *)
(* Strings that reach the engine are integer codes: 0..25 are 'A'..'Z',    *)
(* 26..51 are 'a'..'z', EMPTY is '', DIGIT is '1', MULTI is 'AB'.          *)
(* A raised exception is the value ERR where a character is expected, or   *)
(* the field raised of a record.                                           *)
(*                                                                         *)
(* Rotor and Reflector objects are named by strings; the mutable fields of *)
(* all of them live in the functions position, ring_pos, just_turned_over. *)
(* The rotor tuples handed to configure() hold pairwise distinct Rotor     *)
(* objects and the reflector argument is a Reflector object.               *)
(* The observation callbacks are never set (all None), so their branches   *)
(* in Enigma.encrypt are not taken.                                        *)
(***************************************************************************)
EXTENDS Integers, Sequences, FiniteSets, TLC

\* ------------------------------------------------------------------ bounds
MaxMsg == 5
MaxStepKeys == 2
MaxStart2 == 1

\* ------------------------------------------------------- character codes
ERR == 0 - 1
\* a call that returned None
NORET == 0 - 2
EMPTY == 52
DIGIT == 53
MULTI == 54

Upper == 0..25
Lower == 26..51
Letters == Upper \cup Lower

\* len(s) of a string argument
StrLen(c) == IF c = EMPTY THEN 0 ELSE IF c = MULTI THEN 2 ELSE 1

\* `s in ascii_letters`: substring test, so '' and 'AB' are "in" it
InAsciiLetters(c) == c \in Letters \/ c = EMPTY \/ c = MULTI

\* str.upper()
ToUpper(c) == IF c \in Lower THEN c - 26 ELSE c

get_letter_pos(char) ==
  IF char \in Upper THEN char
  ELSE IF char \in Lower THEN char - 26
  ELSE ERR

pos_to_letter(pos) == pos

\* --------------------------------------------------- module-level wheels
ROTOR_I == "ROTOR_I"
ROTOR_II == "ROTOR_II"
ROTOR_III == "ROTOR_III"
ROTOR_V == "ROTOR_V"
ROTOR_VI == "ROTOR_VI"
ROTOR_BETA == "ROTOR_BETA"
REFLECTOR_B == "REFLECTOR_B"
REFLECTOR_B_THIN == "REFLECTOR_B_THIN"
\* Reflector('ABCDEFGHIJKLMNOPQRSTUVWXYZ'), built by a caller
REFLECTOR_ID == "REFLECTOR_ID"
\* Rotor('AACDEFGHIJKLMNOPQRSTUVWXYZ', 'Q'), built by a caller
ROTOR_DUP == "ROTOR_DUP"
None == "None"

\* the constructor arguments of every wheel object
WheelArgs == [
  ROTOR_I |-> [cipher |-> <<4,10,12,5,11,6,3,16,21,25,13,19,14,22,24,7,23,20,18,15,0,8,1,17,2,9>>,
      turnovers |-> <<16>>, thin |-> FALSE, cls |-> "Rotor"],
  ROTOR_II |-> [cipher |-> <<0,9,3,10,18,8,17,20,23,1,11,7,22,19,12,2,16,6,25,13,15,24,5,21,14,4>>,
      turnovers |-> <<4>>, thin |-> FALSE, cls |-> "Rotor"],
  ROTOR_III |-> [cipher |-> <<1,3,5,7,9,11,2,15,17,19,23,21,25,13,24,4,8,22,6,0,10,12,20,18,16,14>>,
      turnovers |-> <<21>>, thin |-> FALSE, cls |-> "Rotor"],
  ROTOR_V |-> [cipher |-> <<21,25,1,17,6,8,19,24,20,15,18,3,13,7,11,23,0,22,12,9,16,14,5,4,2,10>>,
      turnovers |-> <<25>>, thin |-> FALSE, cls |-> "Rotor"],
  ROTOR_VI |-> [cipher |-> <<9,15,6,21,14,20,12,5,24,16,1,4,13,7,25,17,3,10,0,18,23,11,8,2,19,22>>,
      turnovers |-> <<25,12>>, thin |-> FALSE, cls |-> "Rotor"],
  ROTOR_BETA |-> [cipher |-> <<11,4,24,9,21,2,13,8,23,22,15,1,16,12,3,17,19,0,10,25,6,5,20,7,14,18>>,
      turnovers |-> <<>>, thin |-> TRUE, cls |-> "Rotor"],
  REFLECTOR_B |-> [cipher |-> <<24,17,20,7,16,18,11,3,15,23,13,6,14,10,12,8,4,1,5,25,2,22,21,9,0,19>>,
      turnovers |-> <<>>, thin |-> FALSE, cls |-> "Reflector"],
  REFLECTOR_B_THIN |-> [cipher |-> <<4,13,10,16,0,20,24,22,9,8,2,14,15,1,11,12,3,23,25,21,5,19,7,17,6,18>>,
      turnovers |-> <<>>, thin |-> TRUE, cls |-> "Reflector"],
  REFLECTOR_ID |-> [cipher |-> <<0,1,2,3,4,5,6,7,8,9,10,11,12,13,14,15,16,17,18,19,20,21,22,23,24,25>>,
      turnovers |-> <<>>, thin |-> FALSE, cls |-> "Reflector"],
  ROTOR_DUP |-> [cipher |-> <<0,0,2,3,4,5,6,7,8,9,10,11,12,13,14,15,16,17,18,19,20,21,22,23,24,25>>,
      turnovers |-> <<16>>, thin |-> FALSE, cls |-> "Rotor"]
  ]

SeqToSet(s) == {s[i] : i \in 1..Len(s)}

\* Rotor.__init__ rejecting only ciphers shorter than 26
RotorInit_at_least_26(cipher, turnovers) ==
  /\ Len(cipher) >= 26
  /\ SeqToSet(cipher) \subseteq Letters
  /\ \A i \in 1..Len(turnovers) : StrLen(turnovers[i]) <= 1
  /\ \A i \in 1..Len(turnovers) : get_letter_pos(ToUpper(turnovers[i])) # ERR

\* Rotor.__init__: TRUE iff construction does not raise
RotorInit(cipher, turnovers) ==
  /\ Len(cipher) = 26
  /\ SeqToSet(cipher) \subseteq Letters
  /\ \A i \in 1..Len(turnovers) : StrLen(turnovers[i]) <= 1
  /\ \A i \in 1..Len(turnovers) : get_letter_pos(ToUpper(turnovers[i])) # ERR

\* Reflector.__init__: Rotor.__init__ and then the pairing loop
ReflectorInit(cipher) ==
  /\ RotorInit(cipher, <<>>)
  /\ \A i \in 1..Len(cipher) :
       get_letter_pos(cipher[get_letter_pos(cipher[i]) + 1]) = i - 1

Constructed(o) ==
  IF WheelArgs[o].cls = "Reflector"
    THEN ReflectorInit(WheelArgs[o].cipher)
    ELSE RotorInit(WheelArgs[o].cipher, WheelArgs[o].turnovers)

\* the wheel objects that exist
Objs == {o \in DOMAIN WheelArgs : Constructed(o)}
RotorObjs == {o \in Objs : WheelArgs[o].cls = "Rotor"}
ReflectorObjs == {o \in Objs : WheelArgs[o].cls = "Reflector"}

\* self.cipher = list(''.join(cipher).upper()) for an accepted argument
StoredCipher(wiring) == [i \in 1..Len(wiring) |-> ToUpper(wiring[i])]

\* fields fixed at construction
Cipher(o) == [i \in 1..26 |-> ToUpper(WheelArgs[o].cipher[i])]
Turnovers(o) ==
  {get_letter_pos(ToUpper(WheelArgs[o].turnovers[i])) :
     i \in 1..Len(WheelArgs[o].turnovers)}
Thin(o) == WheelArgs[o].thin
IsReflector(o) == WheelArgs[o].cls = "Reflector"


\* ------------------------------------------------------------- the state
VARIABLES
  configured,        \* Enigma.configured
  rotors,            \* Enigma.rotors, <<>> while the attribute is not set
  rotor4,            \* Enigma.rotor4 (None while not set)
  reflector,         \* Enigma.reflector (None while not set)
  position,          \* Rotor.position of every wheel object
  ring_pos,          \* Rotor.ring_pos of every wheel object
  just_turned_over,  \* Rotor.just_turned_over of every wheel object
  swaps,             \* Plugboard.swaps, a function on the keys present
  lastOp,            \* the call made last: "init", "configure", "reset", "encrypt", ...
  lastIn,            \* the argument of the last encrypt() call, the tuple of
                     \* arguments of the last plugboard call
  result,            \* what the last call returned: a character, NORET for None, ERR if it raised
  rotors_turned_over,\* the rotors the last call advanced ({} unless it was encrypt())
  turned_before,     \* rotors_turned_over of the call before, when the last call was encrypt()
  cfgRings,          \* rings argument of the last configure() that succeeded
  cfgSwaps,          \* plugboard_swaps argument of the last configure() that succeeded
  afterCfg,          \* the recorded message began right after a successful configure()
  phase,             \* "enc": typing a message, "dec": typing its ciphertext after reset()
  plain,             \* characters typed since configure() last touched the machine
  cipher,            \* what encrypt() returned for them
  decoded            \* what encrypt() returned for the ciphertext typed after reset()

machine == <<configured, rotors, rotor4, reflector, position, ring_pos,
             just_turned_over, swaps>>
vars == <<configured, rotors, rotor4, reflector, position, ring_pos,
          just_turned_over, swaps, lastOp, lastIn, result, rotors_turned_over,
          turned_before, cfgRings, cfgSwaps, afterCfg, phase, plain, cipher, decoded>>

\* ------------------------------------------------------------------ Rotor
\* The operators below work on a record st holding the fields of the Enigma
\* object and of the objects it refers to (configured, rotors, rotor4,
\* reflector, position, ring_pos, just_turned_over, swaps) and the locals of
\* the running call: char, turned (rotors_turned_over) and raised (an
\* exception is propagating).

\* Rotor.reset_position
reset_position(st, o) ==
  [st EXCEPT !.position[o] = 0, !.just_turned_over[o] = FALSE]

\* Rotor.reset that leaves the ring setting alone
RotorReset_keep_ring(st, o) ==
  reset_position(st, o)

\* Rotor.reset
RotorReset(st, o) ==
  reset_position([st EXCEPT !.ring_pos[o] = 0], o)

\* Rotor.encrypt(char, turnover): result in char
RotorEncrypt(st, o, char, turnover) ==
  IF get_letter_pos(char) = ERR
    THEN [st EXCEPT !.raised = TRUE, !.char = ERR]
    ELSE LET cipher_pos == get_letter_pos(char) + st.position[o] + st.ring_pos[o]
         IN  [st EXCEPT !.char = Cipher(o)[(cipher_pos % 26) + 1],
                        !.just_turned_over[o] = turnover]

\* list.index: 0-based index of the first occurrence, ERR (ValueError) if none
ListIndex(list, x) ==
  IF \E i \in 1..Len(list) : list[i] = x
    THEN (CHOOSE i \in 1..Len(list) :
            list[i] = x /\ \A j \in 1..(i - 1) : list[j] # x) - 1
    ELSE ERR

\* Rotor.reverse_encrypt(char): result in char
reverse_encrypt(st, o, char) ==
  LET cipher_pos == ListIndex(Cipher(o), char)
      alphabet_pos == cipher_pos - st.position[o] - st.ring_pos[o]
  IN  IF cipher_pos = ERR
        THEN [st EXCEPT !.raised = TRUE, !.char = ERR]
        ELSE [st EXCEPT !.char = alphabet_pos % 26]

\* Rotor.should_turnover without the double-stepping clause
should_turnover_notch_only(st, o, rs) ==
  (st.position[o] - 1) % 26 \in Turnovers(o)

\* Rotor.should_turnover testing the notch at the position after the advance
should_turnover_after_notch(st, o, rs) ==
  \/ st.position[o] \in Turnovers(o)
  \/ /\ ListIndex(rs, o) = 0
     /\ st.just_turned_over[rs[2]]
     /\ st.position[rs[2]] \in Turnovers(rs[2])

\* Rotor.should_turnover(rotors): rs is the tuple self.rotors (rs[1] is rotors[0])
should_turnover(st, o, rs) ==
  \/ (st.position[o] - 1) % 26 \in Turnovers(o)
  \/ /\ ListIndex(rs, o) = 0
     /\ st.just_turned_over[rs[2]]
     /\ st.position[rs[2]] \in Turnovers(rs[2])

\* Rotor.turnover, and the override Reflector.turnover that does nothing
turnover(st, o) ==
  IF IsReflector(o) THEN st
  ELSE [st EXCEPT !.position[o] = (st.position[o] + 1) % 26,
                  !.just_turned_over[o] = TRUE]

\* -------------------------------------------------------------- Plugboard
\* Plugboard.swap without the test that both letters are still free
PlugboardSwap_overwrite(st, char1, char2) ==
  IF StrLen(char1) > 1 \/ StrLen(char2) > 1
    THEN [st EXCEPT !.raised = TRUE]
  ELSE IF ~InAsciiLetters(char1) \/ ~InAsciiLetters(char2)
    THEN [st EXCEPT !.raised = TRUE]
  ELSE LET c1 == ToUpper(char1)
           c2 == ToUpper(char2)
       IN  [st EXCEPT !.swaps =
              (c2 :> c1) @@ (c1 :> c2) @@
              [k \in DOMAIN st.swaps \ {c1, c2} |-> st.swaps[k]]]

\* Plugboard.swap(char1, char2)
PlugboardSwap(st, char1, char2) ==
  IF StrLen(char1) > 1 \/ StrLen(char2) > 1
    THEN [st EXCEPT !.raised = TRUE]
  ELSE IF ~InAsciiLetters(char1) \/ ~InAsciiLetters(char2)
    THEN [st EXCEPT !.raised = TRUE]
  ELSE LET c1 == ToUpper(char1)
           c2 == ToUpper(char2)
       IN  IF c1 \notin DOMAIN st.swaps /\ c2 \notin DOMAIN st.swaps
             THEN [st EXCEPT !.swaps = (c2 :> c1) @@ (c1 :> c2) @@ st.swaps]
             ELSE st

\* Plugboard.encrypt(char)
PlugboardEncrypt(st, char) ==
  IF char \in DOMAIN st.swaps THEN st.swaps[char] ELSE char

\* Plugboard.reset
PlugboardReset(st) == [st EXCEPT !.swaps = <<>>]

\* a call self.swap(*args): swap() has exactly the parameters char1 and
\* char2, any other number of arguments is a TypeError
PlugboardSwapCall(st, args) ==
  IF Len(args) # 2 THEN [st EXCEPT !.raised = TRUE]
  ELSE PlugboardSwap(st, args[1], args[2])

\* swap_all(): for swap in zip(chars[::2], chars[1::2]): self.swap(swap);
\* the pair is handed over as one argument
RECURSIVE SwapAllLoop(_, _, _)
SwapAllLoop(st, chars, i) ==
  IF 2 * i > Len(chars) \/ st.raised THEN st
  ELSE SwapAllLoop(PlugboardSwapCall(st, << <<chars[2 * i - 1], chars[2 * i]>> >>),
                   chars, i + 1)

\* Plugboard.swap_all(*chars)
PlugboardSwapAll(st, chars) ==
  IF Len(chars) % 2 # 0 THEN [st EXCEPT !.raised = TRUE]
  ELSE SwapAllLoop(st, chars, 1)

\* ----------------------------------------------------------------- Enigma
Min(a, b) == IF a <= b THEN a ELSE b

\* configure(): for rotor, ring_pos in zip(self.rotors, rings)
RECURSIVE RingLoop(_, _, _)
RingLoop(st, rings, i) ==
  IF i > Min(Len(st.rotors), Len(rings)) THEN st
  ELSE LET s1 == RotorReset(st, st.rotors[i])
       IN  RingLoop([s1 EXCEPT !.ring_pos[st.rotors[i]] = rings[i]], rings, i + 1)

\* configure(): for char1, char2 in plugboard_swaps
RECURSIVE SwapLoop(_, _, _)
SwapLoop(st, plugboard_swaps, i) ==
  IF i > Len(plugboard_swaps) \/ st.raised THEN st
  ELSE SwapLoop(PlugboardSwap(st, plugboard_swaps[i][1], plugboard_swaps[i][2]),
                plugboard_swaps, i + 1)

\* Enigma.configure without the check "thin reflector but no fourth rotor"
EnigmaConfigure_thin_reflector_alone(st, rotorsArg, rings, reflectorArg, plugboard_swaps, rotor4Arg) ==
  IF Len(rotorsArg) # 3
    THEN [st EXCEPT !.raised = TRUE]
  ELSE IF \E i \in 1..Len(rotorsArg) : Thin(rotorsArg[i])
    THEN [st EXCEPT !.raised = TRUE]
  ELSE IF rotor4Arg # None /\ ~Thin(rotor4Arg)
    THEN [st EXCEPT !.raised = TRUE]
  ELSE IF rotor4Arg # None /\ ~Thin(reflectorArg)
    THEN [st EXCEPT !.raised = TRUE]
  ELSE
    LET s1 == IF rotor4Arg = None THEN st
              ELSE LET r == RotorReset(st, rotor4Arg)
                   IN  IF Len(rings) >= 4
                         THEN [r EXCEPT !.ring_pos[rotor4Arg] = rings[4]]
                         ELSE r
        s2 == [s1 EXCEPT !.rotors = rotorsArg, !.rotor4 = rotor4Arg]
        s3 == RingLoop(s2, rings, 1)
        s4 == [s3 EXCEPT !.reflector = reflectorArg]
        s5 == SwapLoop(s4, plugboard_swaps, 1)
    IN  IF s5.raised THEN s5 ELSE [s5 EXCEPT !.configured = TRUE]

\* Enigma.configure(rotors, rings, reflector, plugboard_swaps, rotor4)
EnigmaConfigure(st, rotorsArg, rings, reflectorArg, plugboard_swaps, rotor4Arg) ==
  IF Len(rotorsArg) # 3
    THEN [st EXCEPT !.raised = TRUE]
  ELSE IF \E i \in 1..Len(rotorsArg) : Thin(rotorsArg[i])
    THEN [st EXCEPT !.raised = TRUE]
  ELSE IF rotor4Arg = None /\ Thin(reflectorArg)
    THEN [st EXCEPT !.raised = TRUE]
  ELSE IF rotor4Arg # None /\ ~Thin(rotor4Arg)
    THEN [st EXCEPT !.raised = TRUE]
  ELSE IF rotor4Arg # None /\ ~Thin(reflectorArg)
    THEN [st EXCEPT !.raised = TRUE]
  ELSE
    LET s1 == IF rotor4Arg = None THEN st
              ELSE LET r == RotorReset(st, rotor4Arg)
                   IN  IF Len(rings) >= 4
                         THEN [r EXCEPT !.ring_pos[rotor4Arg] = rings[4]]
                         ELSE r
        s2 == [s1 EXCEPT !.rotors = rotorsArg, !.rotor4 = rotor4Arg]
        s3 == RingLoop(s2, rings, 1)
        s4 == [s3 EXCEPT !.reflector = reflectorArg]
        s5 == SwapLoop(s4, plugboard_swaps, 1)
    IN  IF s5.raised THEN s5 ELSE [s5 EXCEPT !.configured = TRUE]

\* Enigma.reset calling Rotor.reset (ring settings too) on every rotor
RECURSIVE ResetLoop_rings_too(_, _)
ResetLoop_rings_too(st, i) ==
  IF i > Len(st.rotors) THEN st
  ELSE ResetLoop_rings_too(RotorReset(st, st.rotors[i]), i + 1)

\* Enigma.reset
RECURSIVE ResetLoop(_, _)
ResetLoop(st, i) ==
  IF i > Len(st.rotors) THEN st
  ELSE ResetLoop(reset_position(st, st.rotors[i]), i + 1)

EnigmaReset(st) ==
  IF st.rotors = <<>> THEN [st EXCEPT !.raised = TRUE]
  ELSE ResetLoop(st, 1)

\* the turnover loop asking should_turnover before the rotor is advanced
RECURSIVE StepLoop_ask_first(_, _, _)
StepLoop_ask_first(st, i, flag) ==
  IF i > Len(st.rotors) \/ ~flag THEN st
  ELSE LET o == st.rotors[i]
           s1 == turnover([st EXCEPT !.turned = @ \cup {o}], o)
       IN  StepLoop_ask_first(s1, i + 1, should_turnover(st, o, st.rotors))

\* encrypt(): the turnover loop; flag is the local variable turnover
RECURSIVE StepLoop(_, _, _)
StepLoop(st, i, flag) ==
  IF i > Len(st.rotors) \/ ~flag THEN st
  ELSE LET o == st.rotors[i]
           s1 == turnover([st EXCEPT !.turned = @ \cup {o}], o)
       IN  StepLoop(s1, i + 1, should_turnover(s1, o, st.rotors))

\* the forward pass of one rotor without the subtraction of rotor.position
Forward_keep_offset(st, o) ==
  IF st.raised THEN st
  ELSE RotorEncrypt(st, o, st.char, o \in st.turned)

\* encrypt(): one rotor of the forward pass
Forward(st, o) ==
  IF st.raised THEN st
  ELSE LET s1 == RotorEncrypt(st, o, st.char, o \in st.turned)
       IN  IF s1.raised THEN s1
           ELSE [s1 EXCEPT !.char =
                   pos_to_letter((get_letter_pos(s1.char) - s1.position[o]) % 26)]

\* encrypt(): one rotor of the backward pass
Backward(st, o) ==
  IF st.raised THEN st
  ELSE reverse_encrypt(st, o,
         pos_to_letter((get_letter_pos(st.char) + st.position[o]) % 26))

\* encrypt(): the fourth-rotor stages use the variable rotor, which the
\* forward loop left bound to the last element of self.rotors
LoopRotor(st) == st.rotors[Len(st.rotors)]

Rotor4Forward(st) ==
  IF st.raised \/ st.rotor4 = None THEN st
  ELSE RotorEncrypt(st, LoopRotor(st), st.char, FALSE)

ReflectorStage(st) ==
  IF st.raised THEN st
  ELSE RotorEncrypt(st, st.reflector, st.char, FALSE)

Rotor4Backward(st) ==
  IF st.raised \/ st.rotor4 = None THEN st
  ELSE reverse_encrypt(st, LoopRotor(st), st.char)

PlugStage(st) ==
  IF st.raised THEN st
  ELSE [st EXCEPT !.char = PlugboardEncrypt(st, st.char)]

\* encrypt(): lines 334-394 on the positions it is given
SignalPass(st, char) ==
  LET s0 == PlugStage([st EXCEPT !.char = char])
      s1 == Forward(Forward(Forward(s0, st.rotors[1]), st.rotors[2]), st.rotors[3])
      s2 == Rotor4Backward(ReflectorStage(Rotor4Forward(s1)))
      s3 == Backward(Backward(Backward(s2, st.rotors[3]), st.rotors[2]), st.rotors[1])
  IN  PlugStage(s3)

\* Enigma.encrypt with the turnover loop moved after the signal pass
EnigmaEncrypt_signal_first(st, char) ==
  IF st.rotors = <<>>
    THEN [st EXCEPT !.raised = TRUE, !.char = ERR]
    ELSE StepLoop(SignalPass(st, char), 1, TRUE)

\* Enigma.encrypt(char)
EnigmaEncrypt(st, char) ==
  IF st.rotors = <<>>
    THEN [st EXCEPT !.raised = TRUE, !.char = ERR]
    ELSE SignalPass(StepLoop(st, 1, TRUE), char)

\* ---------------------------------------------------------------- actions
\* the objects as a record, before a call
Cur ==
  [configured |-> configured, rotors |-> rotors, rotor4 |-> rotor4,
   reflector |-> reflector, position |-> position, ring_pos |-> ring_pos,
   just_turned_over |-> just_turned_over, swaps |-> swaps,
   char |-> ERR, turned |-> {}, raised |-> FALSE]

\* the fields of the objects in a record
Fields(s) ==
  <<s.configured, s.rotors, s.rotor4, s.reflector, s.position, s.ring_pos,
    s.just_turned_over, s.swaps>>

\* the objects after a call that left them as the record s
Becomes(s) ==
  /\ configured' = s.configured
  /\ rotors' = s.rotors
  /\ rotor4' = s.rotor4
  /\ reflector' = s.reflector
  /\ position' = s.position
  /\ ring_pos' = s.ring_pos
  /\ just_turned_over' = s.just_turned_over
  /\ swaps' = s.swaps

\* the objects are as the record s says
Is(s) ==
  /\ configured = s.configured
  /\ rotors = s.rotors
  /\ rotor4 = s.rotor4
  /\ reflector = s.reflector
  /\ position = s.position
  /\ ring_pos = s.ring_pos
  /\ just_turned_over = s.just_turned_over
  /\ swaps = s.swaps

A == 0
B == 1
a == 26

\* arguments the callers pass
Keys == {A, a}
RotorTuples ==
  {<<ROTOR_III, ROTOR_II, ROTOR_I>>, <<ROTOR_III, ROTOR_II>>,
   <<ROTOR_III, ROTOR_BETA, ROTOR_I>>}
RingTuples == {<<0, 0, 0>>, <<1, 2, 3, 4>>}
ReflectorArgs == ReflectorObjs
SwapLists ==
  {<<>>, <<<<A, B>>>>, <<<<A, B>>, <<A, DIGIT>>>>, <<<<EMPTY, A>>>>}
Rotor4Args == {None, ROTOR_BETA, ROTOR_V}

\* enigma.configure(rotorsArg, rings, reflectorArg, plugboard_swaps, rotor4Arg);
\* a call that raises and changes nothing does not interrupt the message
Configure(rotorsArg, rings, reflectorArg, plugboard_swaps, rotor4Arg) ==
  LET s == EnigmaConfigure(Cur, rotorsArg, rings, reflectorArg,
                           plugboard_swaps, rotor4Arg)
  IN  /\ Becomes(s)
      /\ lastOp' = "configure"
      /\ lastIn' = ERR
      /\ result' = IF s.raised THEN ERR ELSE NORET
      /\ rotors_turned_over' = {}
      /\ turned_before' = {}
      /\ cfgRings' = IF s.raised THEN cfgRings ELSE rings
      /\ cfgSwaps' = IF s.raised THEN cfgSwaps ELSE plugboard_swaps
      /\ IF s.raised /\ Fields(s) = machine
           THEN UNCHANGED <<afterCfg, phase, plain, cipher, decoded>>
           ELSE /\ afterCfg' = ~s.raised
                /\ phase' = "enc"
                /\ plain' = <<>>
                /\ cipher' = <<>>
                /\ decoded' = <<>>

\* enigma.reset(); the ciphertext of the message typed so far is typed next
Reset ==
  LET s == EnigmaReset(Cur)
  IN  /\ Becomes(s)
      /\ lastOp' = "reset"
      /\ lastIn' = ERR
      /\ result' = IF s.raised THEN ERR ELSE NORET
      /\ rotors_turned_over' = {}
      /\ turned_before' = {}
      /\ phase' = IF plain # <<>> THEN "dec" ELSE phase
      /\ decoded' = <<>>
      /\ UNCHANGED <<cfgRings, cfgSwaps, afterCfg, plain, cipher>>

\* enigma.encrypt(char) for the next character of a message
Encrypt(char) ==
  /\ phase = "enc"
  /\ Len(plain) < MaxMsg
  /\ LET s == EnigmaEncrypt(Cur, char)
     IN  /\ Becomes(s)
         /\ result' = s.char
         /\ rotors_turned_over' = s.turned
         /\ cipher' = Append(cipher, s.char)
  /\ turned_before' = rotors_turned_over
  /\ lastOp' = "encrypt"
  /\ lastIn' = char
  /\ plain' = Append(plain, char)
  /\ UNCHANGED <<cfgRings, cfgSwaps, afterCfg, phase, decoded>>

\* enigma.encrypt(char) for the next character of the ciphertext
EncryptBack ==
  /\ phase = "dec"
  /\ Len(decoded) < Len(cipher)
  /\ cipher[Len(decoded) + 1] \in Letters
  /\ LET char == cipher[Len(decoded) + 1]
         s == EnigmaEncrypt(Cur, char)
     IN  /\ Becomes(s)
         /\ result' = s.char
         /\ rotors_turned_over' = s.turned
         /\ decoded' = Append(decoded, s.char)
         /\ lastIn' = char
  /\ turned_before' = rotors_turned_over
  /\ lastOp' = "encrypt"
  /\ UNCHANGED <<cfgRings, cfgSwaps, afterCfg, phase, plain, cipher>>

\* the fields of the wheel objects once the module is imported
ImportedWheels ==
  [position |-> [o \in Objs |-> IF o = ROTOR_II THEN 3
                                ELSE IF o = ROTOR_III THEN 21 ELSE 0],
   ring_pos |-> [o \in Objs |-> 0],
   just_turned_over |-> [o \in Objs |-> FALSE]]

\* Enigma.__init__ without arguments
EnigmaInit ==
  [configured |-> FALSE, rotors |-> <<>>, rotor4 |-> None, reflector |-> None,
   position |-> ImportedWheels.position, ring_pos |-> ImportedWheels.ring_pos,
   just_turned_over |-> ImportedWheels.just_turned_over, swaps |-> <<>>,
   char |-> ERR, turned |-> {}, raised |-> FALSE]

NoHistory ==
  /\ lastOp = "init"
  /\ lastIn = ERR
  /\ result = NORET
  /\ rotors_turned_over = {}
  /\ turned_before = {}
  /\ phase = "enc"
  /\ plain = <<>>
  /\ cipher = <<>>
  /\ decoded = <<>>

\* ---------------------------------------------- the life of one machine
\* Enigma(), then any calls
Init ==
  /\ Is(EnigmaInit)
  /\ NoHistory
  /\ cfgRings = <<>>
  /\ cfgSwaps = <<>>
  /\ afterCfg = FALSE

Next ==
  \/ \E rotorsArg \in RotorTuples, rings \in RingTuples,
        reflectorArg \in ReflectorArgs, plugboard_swaps \in SwapLists,
        rotor4Arg \in Rotor4Args :
       Configure(rotorsArg, rings, reflectorArg, plugboard_swaps, rotor4Arg)
  \/ Reset
  \/ Encrypt(A)
  \/ EncryptBack

Spec == Init /\ [][Next]_vars

\* ------------------------------------------------ messages under one key
\* Enigma(rotors, rings, reflector, plugboard_swaps[, rotor4]) with arguments
\* configure() accepts, then messages typed, reset() and typed back
InitMsg ==
  /\ \E rotorsArg \in RotorTuples, rings \in RingTuples,
        reflectorArg \in ReflectorArgs, plugboard_swaps \in SwapLists,
        rotor4Arg \in Rotor4Args :
       LET s == EnigmaConfigure(EnigmaInit, rotorsArg, rings, reflectorArg,
                                plugboard_swaps, rotor4Arg)
       IN  /\ ~s.raised
           /\ Is(s)
           /\ cfgRings = rings
           /\ cfgSwaps = plugboard_swaps
  /\ NoHistory
  /\ afterCfg = TRUE

NextMsg ==
  \/ Reset
  \/ \E char \in Keys : Encrypt(char)
  \/ EncryptBack

SpecMsg == InitMsg /\ [][NextMsg]_vars

\* ------------------------------------------------ stepping from anywhere
\* The module-level machine of line 396 with its rotors then set to any
\* positions the way lines 397-398 set them.
StepTuples ==
  {<<ROTOR_III, ROTOR_II, ROTOR_I>>, <<ROTOR_I, ROTOR_VI, ROTOR_II>>}

InitStep ==
  /\ \E rotorsArg \in StepTuples, p0 \in 0..25, p1 \in 0..25, p2 \in 0..MaxStart2 :
       LET s == EnigmaConfigure(EnigmaInit, rotorsArg, <<0, 0, 0>>,
                                REFLECTOR_B, <<>>, None)
           t == [s EXCEPT !.position[rotorsArg[1]] = p0,
                          !.position[rotorsArg[2]] = p1,
                          !.position[rotorsArg[3]] = p2]
       IN  Is(t)
  /\ cfgRings = <<0, 0, 0>>
  /\ cfgSwaps = <<>>
  /\ NoHistory
  /\ afterCfg = FALSE

NextStep ==
  \E char \in Keys : Len(plain) < MaxStepKeys /\ Encrypt(char)

SpecStep == InitStep /\ [][NextStep]_vars

\* --------------------------------------------- the plugboard on its own
\* Enigma().plugboard, called directly
C == 2
PlugChars == {A, B, C, a, EMPTY, DIGIT, MULTI}
CharLists ==
  {<<>>, <<A>>, <<A, B>>, <<A, B, C>>, <<A, B, B, C>>, <<a, B, C, A>>}

\* what the plugboard calls leave alone
PlugFrame ==
  UNCHANGED <<rotors_turned_over, turned_before, cfgRings, cfgSwaps,
              afterCfg, phase, plain, cipher, decoded>>

\* plugboard.swap(char1, char2)
Swap(char1, char2) ==
  LET s == PlugboardSwap(Cur, char1, char2)
  IN  /\ Becomes(s)
      /\ lastOp' = "swap"
      /\ lastIn' = <<char1, char2>>
      /\ result' = IF s.raised THEN ERR ELSE NORET
      /\ PlugFrame

\* plugboard.swap_all(*chars)
SwapAll(chars) ==
  LET s == PlugboardSwapAll(Cur, chars)
  IN  /\ Becomes(s)
      /\ lastOp' = "swap_all"
      /\ lastIn' = chars
      /\ result' = IF s.raised THEN ERR ELSE NORET
      /\ PlugFrame

\* plugboard.reset()
PlugReset ==
  /\ Becomes(PlugboardReset(Cur))
  /\ lastOp' = "plugboard.reset"
  /\ lastIn' = <<>>
  /\ result' = NORET
  /\ PlugFrame

InitPlug ==
  /\ Is(EnigmaInit)
  /\ NoHistory
  /\ cfgRings = <<>>
  /\ cfgSwaps = <<>>
  /\ afterCfg = FALSE

NextPlug ==
  \/ \E char1 \in PlugChars, char2 \in PlugChars : Swap(char1, char2)
  \/ \E chars \in CharLists : SwapAll(chars)
  \/ PlugReset

SpecPlug == InitPlug /\ [][NextPlug]_vars

\* ---------------------------------------------------- building a wheel
\* Reflector(wiring) called with wirings of any kind: the catalog wiring B
\* and the identity, each with any two entries exchanged, and wirings that
\* are lowercase, repeat a letter, are too short or hold a non-letter
IdentityWiring == [i \in 1..26 |-> i - 1]
Exchange(wiring, i, j) == [wiring EXCEPT ![i] = wiring[j], ![j] = wiring[i]]
ReflectorCiphers ==
  {Exchange(w, i, j) : w \in {WheelArgs[REFLECTOR_B].cipher, IdentityWiring},
                       i \in 1..26, j \in 1..26}
  \cup {[i \in 1..26 |-> WheelArgs[REFLECTOR_B].cipher[i] + 26],
        [i \in 1..26 |-> A],
        SubSeq(WheelArgs[REFLECTOR_B].cipher, 1, 25),
        [WheelArgs[REFLECTOR_B].cipher EXCEPT ![1] = DIGIT]}

\* Reflector(wiring)
NewReflector(wiring) ==
  /\ lastOp' = "Reflector"
  /\ lastIn' = wiring
  /\ result' = IF ReflectorInit(wiring) THEN NORET ELSE ERR
  /\ UNCHANGED machine
  /\ UNCHANGED <<rotors_turned_over, turned_before, cfgRings, cfgSwaps,
                 afterCfg, phase, plain, cipher, decoded>>

InitCtor ==
  /\ Is(EnigmaInit)
  /\ NoHistory
  /\ cfgRings = <<>>
  /\ cfgSwaps = <<>>
  /\ afterCfg = FALSE

\* Rotor(cipher, turnovers) called with the catalog wiring I, with one of its
\* letters written over another (in either case), and with ciphers that are
\* lowercase, one letter only, too short, too long or hold non-letters
Overwrite(wiring, i, j) == [wiring EXCEPT ![i] = wiring[j]]
RotorCiphers ==
  {Overwrite(WheelArgs[ROTOR_I].cipher, i, j) : i \in 1..26, j \in {1, 26}}
  \cup {[i \in 1..26 |-> WheelArgs[ROTOR_I].cipher[i] + 26],
        [WheelArgs[ROTOR_I].cipher EXCEPT ![2] = WheelArgs[ROTOR_I].cipher[1] + 26],
        [i \in 1..26 |-> A],
        SubSeq(WheelArgs[ROTOR_I].cipher, 1, 25),
        Append(WheelArgs[ROTOR_I].cipher, A),
        [WheelArgs[ROTOR_I].cipher EXCEPT ![1] = DIGIT],
        [i \in 1..26 |-> DIGIT]}
\* 'Q' and ['AB']
RotorTurnoverArgs == {<<16>>, <<MULTI>>}

\* Rotor(wiring, turnovers)
NewRotor(wiring, turnovers) ==
  /\ lastOp' = "Rotor"
  /\ lastIn' = <<wiring, turnovers>>
  /\ result' = IF RotorInit(wiring, turnovers) THEN NORET ELSE ERR
  /\ UNCHANGED machine
  /\ UNCHANGED <<rotors_turned_over, turned_before, cfgRings, cfgSwaps,
                 afterCfg, phase, plain, cipher, decoded>>

NextCtor ==
  \/ \E wiring \in ReflectorCiphers : NewReflector(wiring)
  \/ \E wiring \in RotorCiphers, turnovers \in RotorTurnoverArgs :
       NewRotor(wiring, turnovers)

SpecCtor == InitCtor /\ [][NextCtor]_vars

\* ------------------------------------------------- one rotor on its own
\* rotor.position = p; rotor.ring_pos = r on a catalog rotor and on a rotor a
\* caller built, then rotor.encrypt(char) and rotor.reverse_encrypt(char)
TestRotors == {ROTOR_I, ROTOR_DUP}
RingSettings == {0, 25}
RotorKeys == Upper \cup {a}

RotorFrame ==
  UNCHANGED <<rotors_turned_over, turned_before, cfgRings, cfgSwaps,
              afterCfg, phase, plain, cipher, decoded>>

\* o.encrypt(char)
RotorEncryptCall(o, char) ==
  LET s == RotorEncrypt(Cur, o, char, FALSE)
  IN  /\ Becomes(s)
      /\ lastOp' = "Rotor.encrypt"
      /\ lastIn' = <<o, char>>
      /\ result' = s.char
      /\ RotorFrame

\* o.reverse_encrypt(char)
RotorReverseCall(o, char) ==
  LET s == reverse_encrypt(Cur, o, char)
  IN  /\ Becomes(s)
      /\ lastOp' = "Rotor.reverse_encrypt"
      /\ lastIn' = <<o, char>>
      /\ result' = s.char
      /\ RotorFrame

InitRotor ==
  /\ \E p \in 0..25, r \in RingSettings :
       Is([EnigmaInit EXCEPT
             !.position = [o \in Objs |-> IF o \in TestRotors THEN p
                                          ELSE EnigmaInit.position[o]],
             !.ring_pos = [o \in Objs |-> IF o \in TestRotors THEN r
                                          ELSE EnigmaInit.ring_pos[o]]])
  /\ NoHistory
  /\ cfgRings = <<>>
  /\ cfgSwaps = <<>>
  /\ afterCfg = FALSE

NextRotor ==
  \/ \E o \in TestRotors, char \in RotorKeys : RotorEncryptCall(o, char)
  \/ \E o \in TestRotors, char \in RotorKeys : RotorReverseCall(o, char)

SpecRotor == InitRotor /\ [][NextRotor]_vars

\* ================================================================= claims
IsPrefix(s, t) == Len(s) <= Len(t) /\ \A k \in 1..Len(s) : s[k] = t[k]

\* ---- C1 ----------------------------------------------------------------
\* C1: self-inverse.  For a 3-rotor configuration, a message typed right
\* after configure(), then reset(), then its ciphertext typed letter by
\* letter gives back the message (compared without regard to case).
C1_SelfInverse ==
  (phase = "dec" /\ afterCfg /\ rotor4 = None) =>
     \A k \in 1..Len(decoded) : decoded[k] = ToUpper(plain[k])

\* ---- C2 ----------------------------------------------------------------
AAAAA == <<0, 0, 0, 0, 0>>
BDZGO == <<1, 3, 25, 6, 14>>

VectorKey ==
  /\ afterCfg
  /\ rotors = <<ROTOR_III, ROTOR_II, ROTOR_I>>
  /\ cfgRings = <<0, 0, 0>>
  /\ reflector = REFLECTOR_B
  /\ cfgSwaps = <<>>
  /\ rotor4 = None

\* C2: end-to-end vector.  Rotors (III, II, I), rings (0,0,0), reflector B,
\* no swaps: the keystrokes AAAAA give BDZGO, and after reset() the
\* keystrokes BDZGO give AAAAA.
C2_Vector ==
  (VectorKey /\ plain = AAAAA) =>
     /\ cipher = BDZGO
     /\ (phase = "dec" /\ Len(decoded) = 5) => decoded = AAAAA

C2_Witness ==
  /\ VectorKey
  /\ plain = AAAAA
  /\ cipher = BDZGO
  /\ phase = "dec"
  /\ decoded = AAAAA

\* ---- C3 ----------------------------------------------------------------
\* C3: no fixed point.  On a configured machine encrypt(L) returns a letter
\* different from L.
C3_NoFixedPoint ==
  (lastOp = "encrypt" /\ configured /\ result # ERR) => result # lastIn

\* ---- C4 ----------------------------------------------------------------
\* C4: double-stepping.  If a keystroke advanced rotor 1 and left it on one
\* of its own turnover positions, the very next keystroke advances rotor 1
\* again and advances rotor 2.
C4_DoubleStep ==
  [][(/\ lastOp = "encrypt"
      /\ rotors[2] \in rotors_turned_over
      /\ position[rotors[2]] \in Turnovers(rotors[2])
      /\ lastOp' = "encrypt")
     => /\ position'[rotors[2]] = (position[rotors[2]] + 1) % 26
        /\ position'[rotors[3]] = (position[rotors[3]] + 1) % 26]_vars

C4_Witness ==
  /\ lastOp = "encrypt"
  /\ rotors[2] \in turned_before
  /\ rotors[2] \in rotors_turned_over
  /\ rotors[3] \in rotors_turned_over
  /\ (position[rotors[2]] - 1) % 26 \in Turnovers(rotors[2])

\* ---- C5 ----------------------------------------------------------------
\* C5: every encrypt() on a configured machine advances rotor 0 by exactly
\* one modulo 26, and the letter it returns is the signal pass taken at the
\* positions the rotors have after the advance.
C5_StepThenSignal ==
  [][(lastOp' = "encrypt" /\ configured)
     => /\ position'[rotors[1]] = (position[rotors[1]] + 1) % 26
        /\ result' # ERR => result' = SignalPass(Cur', lastIn').char]_vars

\* rotor 0 wrapped from 25 to 0 and the letter differs from the one the
\* positions before the advance would have given
C5_Witness ==
  /\ lastOp = "encrypt"
  /\ configured
  /\ position[rotors[1]] = 0
  /\ result \in Upper
  /\ result = SignalPass(Cur, lastIn).char
  /\ result # SignalPass([Cur EXCEPT !.position[rotors[1]] = 25], lastIn).char

\* ---- C6 ----------------------------------------------------------------
\* C6: while no configure() has succeeded, encrypt() fails.
C6_UnconfiguredFails ==
  (lastOp = "encrypt" /\ ~configured) => result = ERR

\* ---- C7 ----------------------------------------------------------------
EarlierCallsReturned ==
  IF phase = "enc"
    THEN \A k \in 1..(Len(cipher) - 1) : cipher[k] \in Upper
    ELSE /\ \A k \in 1..Len(cipher) : cipher[k] \in Upper
         /\ \A k \in 1..(Len(decoded) - 1) : decoded[k] \in Upper

\* C7: after successful configure(), reset() and encrypt() calls, encrypt()
\* of one alphabetic character does not raise and returns an uppercase letter.
C7_EncryptReturnsLetter ==
  (lastOp = "encrypt" /\ configured /\ EarlierCallsReturned) => result \in Upper

\* ---- C8 ----------------------------------------------------------------
\* C8: after a successful configure() every rotors[i] is at position 0, not
\* just turned over, with ring_pos = rings[i]; rotor4, if given, is at
\* position 0 with ring_pos = rings[3] if there is a 4th ring value, else 0.
C8_ConfigureResets ==
  (lastOp = "configure" /\ result = NORET) =>
     /\ \A i \in 1..3 :
          /\ position[rotors[i]] = 0
          /\ ~just_turned_over[rotors[i]]
          /\ ring_pos[rotors[i]] = cfgRings[i]
     /\ rotor4 # None =>
          /\ position[rotor4] = 0
          /\ ring_pos[rotor4] = IF Len(cfgRings) >= 4 THEN cfgRings[4] ELSE 0

\* a 4-rotor key with 3 ring values, set on a machine that is being
\* configured again
C8_Witness ==
  /\ lastOp = "configure"
  /\ result = NORET
  /\ rotor4 # None
  /\ Len(cfgRings) = 3
  /\ swaps # <<>>
  /\ cfgSwaps = <<>>

\* ---- C9 ----------------------------------------------------------------
\* the pairs plugboard_swaps builds on an empty plugboard
BuiltFrom(plugboard_swaps) ==
  SwapLoop(PlugboardReset(Cur), plugboard_swaps, 1).swaps

\* C9: after every successful configure() the plugboard holds exactly the
\* pairs built from plugboard_swaps.
C9_PlugboardRebuilt ==
  (lastOp = "configure" /\ result = NORET) => swaps = BuiltFrom(cfgSwaps)

\* ---- C10 ---------------------------------------------------------------
\* C10: a configure() call that raises leaves the machine as it was.
C10_AllOrNothing ==
  [][(lastOp' = "configure" /\ result' = ERR) => machine' = machine]_vars

\* ---- C11 ---------------------------------------------------------------
\* C11: whenever the machine is configured it has exactly 3 main rotors,
\* none of them thin; rotor4 is present iff the reflector is thin; rotor4,
\* when present, is thin.  (A configure() that succeeded stored its
\* arguments, so the arguments of every accepted call satisfy this.)
C11_ConfiguredShape ==
  configured =>
     /\ Len(rotors) = 3
     /\ \A i \in 1..Len(rotors) : ~Thin(rotors[i])
     /\ (rotor4 # None) <=> Thin(reflector)
     /\ rotor4 # None => Thin(rotor4)

\* a configured 4-rotor machine on which a later configure() was rejected
C11_Witness ==
  /\ configured
  /\ rotor4 # None
  /\ Thin(reflector)
  /\ Thin(rotor4)
  /\ lastOp = "configure"
  /\ result = ERR

\* ---- C12 ---------------------------------------------------------------
\* C12: reset() on a configured machine, after any number of encrypt()
\* calls, puts every rotating rotor at position 0 with just_turned_over
\* false and leaves ring settings, plugboard swaps, reflector and rotor
\* selection as they were; the machine is then as it was right after the
\* configure() that built it (here the one Enigma(args) made).
C12_ResetFrame ==
  [][(lastOp' = "reset" /\ configured)
     => /\ result' = NORET
        /\ \A i \in 1..Len(rotors) :
             position'[rotors[i]] = 0 /\ ~just_turned_over'[rotors[i]]
        /\ ring_pos' = ring_pos
        /\ swaps' = swaps
        /\ reflector' = reflector
        /\ rotors' = rotors
        /\ rotor4' = rotor4
        /\ configured'
        /\ afterCfg =>
             machine' = Fields(EnigmaConfigure(EnigmaInit, rotors, cfgRings,
                                               reflector, cfgSwaps, rotor4))]_vars

\* reset() after a whole message on a machine with ring settings and a pair
C12_Witness ==
  /\ lastOp = "reset"
  /\ configured
  /\ Len(plain) = MaxMsg
  /\ cfgRings = <<1, 2, 3, 4>>
  /\ swaps # <<>>
  /\ \A i \in 1..3 : position[rotors[i]] = 0 /\ ring_pos[rotors[i]] = i

\* ---- C13 ---------------------------------------------------------------
\* the signal pass with the fourth-rotor stages taken through rotor4: its
\* own wiring and ring setting forward, the reflector, its inverse wiring
ThroughRotor4(st, char) ==
  LET s0 == PlugStage([st EXCEPT !.char = char])
      s1 == Forward(Forward(Forward(s0, st.rotors[1]), st.rotors[2]), st.rotors[3])
      s2 == RotorEncrypt(s1, st.rotor4, s1.char, FALSE)
      s3 == ReflectorStage(s2)
      s4 == reverse_encrypt(s3, st.rotor4, s3.char)
      s5 == Backward(Backward(Backward(s4, st.rotors[3]), st.rotors[2]), st.rotors[1])
  IN  PlugStage(s5)

\* C13: in a 4-rotor configuration the letter encrypt() returns is the
\* composition plugboard, rotors 0-2, rotor4, reflector, rotor4 reversed,
\* rotors 2-0 reversed, plugboard, taken at the positions after the step.
C13_ThroughRotor4 ==
  (lastOp = "encrypt" /\ configured /\ rotor4 # None /\ result \in Upper)
     => result = ThroughRotor4(Cur, lastIn).char

\* ---- C14 ---------------------------------------------------------------
\* C14: encrypt() is case-insensitive.  From any configured state, encrypt
\* of a character returns the letter, and leaves the machine in the state,
\* that encrypt of the same letter in uppercase gives from that state.
C14_CaseInsensitive ==
  [][(lastOp' = "encrypt" /\ configured)
     => /\ result' = EnigmaEncrypt(Cur, ToUpper(lastIn')).char
        /\ machine' = Fields(EnigmaEncrypt(Cur, ToUpper(lastIn')))]_vars

\* ---- C15 ---------------------------------------------------------------
\* the letters encrypt() returns for the 26 letters, each typed from state st
EncryptImage(st) == {EnigmaEncrypt(st, L).char : L \in Upper}

\* C15: permutation closure.  From any one configured state, L |-> encrypt(L)
\* is a bijection on the 26 letters: every call returns a letter and two
\* different letters never give the same one.
C15_Bijection ==
  configured =>
     /\ EncryptImage(Cur) \subseteq Upper
     /\ Cardinality(EncryptImage(Cur)) = 26

\* ---- C16 ---------------------------------------------------------------
\* C16: after any sequence of swap(), swap_all() and reset() calls, swaps is
\* a symmetric mapping over the 26 uppercase letters: every key and value
\* is one of them and swaps[a] = b implies swaps[b] = a (so each letter is
\* in at most one pair).
C16_SymmetricSwaps ==
  \A k \in DOMAIN swaps :
     /\ k \in Upper
     /\ swaps[k] \in Upper
     /\ swaps[k] \in DOMAIN swaps
     /\ swaps[swaps[k]] = k

\* ---- C17 ---------------------------------------------------------------
\* C17: first-write-wins.  swap(a, b) on letters of which one already
\* belongs to a pair leaves swaps as it is and does not raise (so a second
\* swap('A','B') leaves {A:B, B:A}).
C17_FirstWriteWins ==
  [][(/\ lastOp' = "swap"
      /\ lastIn'[1] \in Letters
      /\ lastIn'[2] \in Letters
      /\ \/ ToUpper(lastIn'[1]) \in DOMAIN swaps
         \/ ToUpper(lastIn'[2]) \in DOMAIN swaps)
     => /\ swaps' = swaps
        /\ result' = NORET]_vars

\* swap('B','C') returned on the plugboard {A:B, B:A} and left it so
C17_Witness ==
  /\ lastOp = "swap"
  /\ lastIn = <<B, C>>
  /\ result = NORET
  /\ DOMAIN swaps = {A, B}
  /\ swaps[A] = B
  /\ swaps[B] = A

\* ---- C18 ---------------------------------------------------------------
\* C18: swap(a, b) raises and leaves swaps unchanged whenever a or b is not
\* exactly one alphabetic character ('' , two or more characters, or one
\* non-letter).
C18_SwapRejects ==
  [][(/\ lastOp' = "swap"
      /\ lastIn'[1] \notin Letters \/ lastIn'[2] \notin Letters)
     => /\ result' = ERR
        /\ swaps' = swaps]_vars

\* ---- C19 ---------------------------------------------------------------
\* the pairs (c1,c2), (c3,c4), ... of an even-length argument list
PairsOf(chars) ==
  [i \in 1..(Len(chars) \div 2) |-> <<chars[2 * i - 1], chars[2 * i]>>]

\* C19: swap_all with an even number of letters succeeds and leaves swaps
\* as the calls swap(c1,c2), swap(c3,c4), ... in that order leave it; with
\* an odd number of arguments it raises and leaves swaps unchanged.
C19_SwapAll ==
  [][(lastOp' = "swap_all")
     => IF Len(lastIn') % 2 = 0
          THEN /\ result' = NORET
               /\ swaps' = SwapLoop(Cur, PairsOf(lastIn'), 1).swaps
          ELSE /\ result' = ERR
               /\ swaps' = swaps]_vars

\* ---- C20 ---------------------------------------------------------------
\* C20: every wiring c that Reflector() accepts has c[c[i]] = i and
\* c[i] # i at all 26 positions i (so a wiring that is not an involution or
\* has a fixed point, the identity among them, is rejected).
C20_ReflectorWiring ==
  (lastOp = "Reflector" /\ result = NORET) =>
     LET c == StoredCipher(lastIn)
     IN  \A i \in 0..25 : c[c[i + 1] + 1] = i /\ c[i + 1] # i

\* ---- C21 ---------------------------------------------------------------
\* C21: every cipher that Rotor() accepts is a bijection on the 26 letters:
\* 26 distinct letters once in uppercase (so a 26-letter cipher that repeats
\* a letter is rejected).
C21_RotorBijection ==
  (lastOp = "Rotor" /\ result = NORET) =>
     SeqToSet(StoredCipher(lastIn[1])) = Upper

\* ---- C22 ---------------------------------------------------------------
\* C22: Rotor() raises, and no rotor exists, for every cipher whose length
\* is not 26 and for every 26-character cipher with a non-letter in it.
C22_RotorRejects ==
  (/\ lastOp = "Rotor"
   /\ \/ Len(lastIn[1]) # 26
      \/ \E i \in 1..Len(lastIn[1]) : lastIn[1][i] \notin Letters)
     => result = ERR

\* a 27-character cipher of letters, with a turnover that is fine, rejected
C22_Witness ==
  /\ lastOp = "Rotor"
  /\ Len(lastIn[1]) = 27
  /\ SeqToSet(lastIn[1]) \subseteq Letters
  /\ lastIn[2] = <<16>>
  /\ result = ERR

\* ---- C23 ---------------------------------------------------------------
\* rotor 1 advanced on the keystroke before and sits on one of its turnovers
DoubleStepDue ==
  /\ lastOp = "encrypt"
  /\ rotors[2] \in rotors_turned_over
  /\ position[rotors[2]] \in Turnovers(rotors[2])

\* C23: cascade rule.  On a keystroke rotor 1 advances iff rotor 0 was on
\* one of its turnover positions before the keystroke or the double-step
\* condition holds; rotor 2 advances iff rotor 1 advances and was on one of
\* its turnover positions before the keystroke; a rotor that advances moves
\* by one, the others do not move.
C23_Cascade ==
  [][(lastOp' = "encrypt" /\ configured)
     => /\ rotors[2] \in rotors_turned_over' <=>
             (position[rotors[1]] \in Turnovers(rotors[1]) \/ DoubleStepDue)
        /\ rotors[3] \in rotors_turned_over' <=>
             /\ rotors[2] \in rotors_turned_over'
             /\ position[rotors[2]] \in Turnovers(rotors[2])
        /\ \A k \in 1..3 :
             position'[rotors[k]] =
               IF rotors[k] \in rotors_turned_over'
                 THEN (position[rotors[k]] + 1) % 26
                 ELSE position[rotors[k]]]_vars

\* rotor 0 left its turnover position and took rotor 1 along, rotor 2 stayed,
\* on the keystroke after one that moved rotor 0 alone
C23_Witness ==
  /\ lastOp = "encrypt"
  /\ turned_before = {rotors[1]}
  /\ rotors_turned_over = {rotors[1], rotors[2]}
  /\ (position[rotors[1]] - 1) % 26 \in Turnovers(rotors[1])
  /\ (position[rotors[2]] - 1) % 26 \notin Turnovers(rotors[2])

\* ---- C24 ---------------------------------------------------------------
\* phase 1 as stated: rotor 0, and rotor k iff rotor k-1 is chosen and its
\* should_turnover(rotors) holds on the positions and flags before the
\* keystroke
ChosenBefore(st) ==
  LET rs == st.rotors
      c1 == should_turnover(st, rs[1], rs)
      c2 == c1 /\ should_turnover(st, rs[2], rs)
  IN  {rs[1]} \cup (IF c1 THEN {rs[2]} ELSE {}) \cup (IF c2 THEN {rs[3]} ELSE {})

\* the state before the keystroke with the position of rotor o one further
OwnAdvance(st, o) == [st EXCEPT !.position[o] = (st.position[o] + 1) % 26]

\* phase 1 with should_turnover(rotors) of rotor k-1 taken at its own
\* advanced position, every other position and every flag as before the
\* keystroke
ChosenOwnAdvance(st) ==
  LET rs == st.rotors
      c1 == should_turnover(OwnAdvance(st, rs[1]), rs[1], rs)
      c2 == c1 /\ should_turnover(OwnAdvance(st, rs[2]), rs[2], rs)
  IN  {rs[1]} \cup (IF c1 THEN {rs[2]} ELSE {}) \cup (IF c2 THEN {rs[3]} ELSE {})

\* C24 as stated: the rotors encrypt() advances are those of the two-phase
\* algorithm whose phase 1 evaluates should_turnover(rotors) on the
\* positions and flags held before the keystroke.
C24_TwoPhaseBefore ==
  [][(lastOp' = "encrypt" /\ configured)
     => rotors_turned_over' = ChosenBefore(Cur)]_vars

\* C24 amended: the rotors encrypt() advances are those of the two-phase
\* algorithm whose phase 1, without mutating any rotor, chooses rotor 0 and
\* chooses rotor k iff rotor k-1 is chosen and its should_turnover(rotors)
\* holds at its own position advanced by one, all other positions and all
\* flags being those before the keystroke; phase 2 then applies turnover()
\* to every chosen rotor.
C24_TwoPhase ==
  [][(lastOp' = "encrypt" /\ configured)
     => /\ rotors_turned_over' = ChosenOwnAdvance(Cur)
        /\ \A o \in Objs :
             position'[o] = IF o \in ChosenOwnAdvance(Cur)
                              THEN (position[o] + 1) % 26
                              ELSE position[o]]_vars

\* the first keystroke took all three rotors along
C24_Witness ==
  /\ lastOp = "encrypt"
  /\ Len(plain) = 1
  /\ rotors_turned_over = {rotors[1], rotors[2], rotors[3]}
  /\ \A k \in 1..2 : (position[rotors[k]] - 1) % 26 \in Turnovers(rotors[k])

\* ---- C25 ---------------------------------------------------------------
\* the call made now is on the rotor of the call before, with what that
\* call returned
FedBack == lastIn'[1] = lastIn[1] /\ lastIn'[2] = result

\* C25: for every constructed rotor, position, ring_pos and letter x (taken
\* without regard to case), reverse_encrypt(encrypt(x)) = x and
\* encrypt(reverse_encrypt(x)) = x; both calls return a letter and neither
\* changes position or ring_pos.
C25_RotorInverse ==
  [][/\ (lastOp' \in {"Rotor.encrypt", "Rotor.reverse_encrypt"})
          => /\ result' \in Upper
             /\ position' = position
             /\ ring_pos' = ring_pos
     /\ (lastOp = "Rotor.encrypt" /\ lastOp' = "Rotor.reverse_encrypt" /\ FedBack)
          => result' = ToUpper(lastIn[2])
     /\ (lastOp = "Rotor.reverse_encrypt" /\ lastOp' = "Rotor.encrypt" /\ FedBack)
          => result' = ToUpper(lastIn[2])]_vars
====
